---- MODULE Spec2Model ----
(***************************************************************************)
(* Maru: the SQL text produced by CreateTable(...).getSql() and by the     *)
(* utilities convertJSTypeToSql and escape.                                *)
(*                                                                         *)
(* The program is a set of pure functions.  A state is one invocation:     *)
(* `call` holds the function and its arguments, `result` what the call     *)
(* returned or threw (Pending before it ran).                              *)
(*                                                                         *)
(* JavaScript values are modelled as follows.                              *)
(*  - text that the code only interpolates (type tags, the table name,     *)
(*    SQL output) is a TLA+ string; text the code transforms character by  *)
(*    character (a column name, lowercased) is a sequence of characters;   *)
(*  - a number is [nan, halves]: NaN, or a multiple of one half, so that   *)
(*    integers and fractional values (2.5) both occur;                     *)
(*  - an object is a function whose DOMAIN is its set of own properties.   *)
(***************************************************************************)
EXTENDS Integers, Sequences, FiniteSets, TLC

VARIABLES call, result

vars == <<call, result>>

(***************************************************************************)
(* Bounds of the model.                                                    *)
(***************************************************************************)
\* largest whole size tried for a column
MaxSize == 3
\* longest schema built from the sample entries
MaxCols == 2
\* longest string handed to escape
MaxStrLen == 2

(***************************************************************************)
(* Outcomes of a call.                                                     *)
(***************************************************************************)
Pending == [kind |-> "pending"]

Returned(v) == [kind |-> "return", value |-> v]

Thrown(c, m) == [kind |-> "throw", class |-> c, message |-> m]

(***************************************************************************)
(* JavaScript primitives used by the code.                                 *)
(***************************************************************************)
HasOwn(o, f) == f \in DOMAIN o

NoProps == [k \in {} |-> TRUE]

Num(h) == [nan |-> FALSE, halves |-> h]

Int2Num(n) == Num(2 * n)

NaN == [nan |-> TRUE, halves |-> 0]

isNaN(x) == x.nan

\* variant: whole and positive
NumberIsPositiveInteger(x) == ~x.nan /\ x.halves % 2 = 0 /\ x.halves > 0

NumberIsInteger(x) == ~x.nan /\ x.halves % 2 = 0

\* variant: x > 0
GreaterThanZero(x) == ~x.nan /\ x.halves > 0

\* x > 1 (false for NaN)
GreaterThanOne(x) == ~x.nan /\ x.halves > 2

Digits == <<"0", "1", "2", "3", "4", "5", "6", "7", "8", "9">>

RECURSIVE NatToString(_)
NatToString(n) ==
  IF n < 10 THEN Digits[n + 1]
  ELSE NatToString(n \div 10) \o Digits[(n % 10) + 1]

\* `${x}` for a number x
NumberToString(x) ==
  IF x.nan THEN "NaN"
  ELSE LET a == IF x.halves < 0 THEN -x.halves ELSE x.halves
       IN (IF x.halves < 0 THEN "-" ELSE "")
            \o NatToString(a \div 2)
            \o (IF a % 2 = 1 THEN ".5" ELSE "")

\* a string given by its characters, as text
RECURSIVE Text(_)
Text(chars) ==
  IF chars = <<>> THEN "" ELSE Head(chars) \o Text(Tail(chars))

LowerChar(c) ==
  CASE c = "A" -> "a" [] c = "B" -> "b" [] c = "C" -> "c" [] c = "D" -> "d"
    [] c = "I" -> "i" [] c = "N" -> "n" [] c = "X" -> "x"
    [] OTHER -> c

\* variant: the name is used as written
toLowerCaseSkipped(chars) == chars

toLowerCase(chars) == [i \in 1..Len(chars) |-> LowerChar(chars[i])]

RECURSIVE Join(_, _)
Join(strs, sep) ==
  IF strs = <<>> THEN ""
  ELSE IF Len(strs) = 1 THEN strs[1]
  ELSE strs[1] \o sep \o Join(Tail(strs), sep)

Includes(list, x) == \E i \in 1..Len(list) : list[i] = x

(***************************************************************************)
(* util: convertJSTypeToSql                                                *)
(***************************************************************************)
isPrimary(o) == IF HasOwn(o, "primary") /\ o.primary THEN " PRIMARY KEY" ELSE ""

isNullable(o) == IF HasOwn(o, "nullable") /\ o.nullable THEN " NULL" ELSE ""

\* '' stands in for "no size"; it compares as 0 and both of its uses are
\* guarded by allocSize > 1, so it is never interpolated.
allocSize(o) ==
  IF HasOwn(o, "size") /\ GreaterThanOne(o.size) THEN o.size ELSE Num(0)

isArray(o) == HasOwn(o, "array") /\ o.array

sizeText(o) ==
  IF GreaterThanOne(allocSize(o))
  THEN "(" \o NumberToString(allocSize(o)) \o ")" ELSE ""

arrayText(o) ==
  IF isArray(o)
  THEN "[" \o (IF GreaterThanOne(allocSize(o))
               THEN NumberToString(allocSize(o)) ELSE "") \o "]"
  ELSE ""

renderColumn(n, t, o) ==
  CASE t = "boolean" ->
         Returned(Text(toLowerCase(n)) \o " BOOL" \o isNullable(o) \o isPrimary(o))
    [] t \in {"date", "string"} ->
         Returned(Text(toLowerCase(n)) \o " VARCHAR" \o sizeText(o) \o arrayText(o)
                    \o isNullable(o) \o isPrimary(o))
    [] t = "object" ->
         Returned(Text(toLowerCase(n)) \o " JSONB" \o sizeText(o) \o arrayText(o)
                    \o isNullable(o) \o isPrimary(o))
    [] t = "bigint" ->
         Returned(Text(toLowerCase(n)) \o " BIGINT" \o arrayText(o)
                    \o isNullable(o) \o isPrimary(o))
    [] t = "number" ->
         Returned(Text(toLowerCase(n)) \o " INTEGER" \o arrayText(o)
                    \o isNullable(o) \o isPrimary(o))
    [] t = "float" ->
         Returned(Text(toLowerCase(n)) \o " DOUBLE" \o arrayText(o)
                    \o isNullable(o) \o isPrimary(o))
    [] OTHER ->
         Thrown("Error", "JavaScript type '" \o t \o "' is not a valid type")

\* variant: the nullable primary key is looked for before the array one
convertJSTypeToSqlReordered(n, t, o) ==
  IF t \in {"function", "class", "symbol", "undefined", "null"}
  THEN Thrown("Error", "Type \"" \o t \o "\" is not supported")
  ELSE IF t \in {"boolean"} /\ isArray(o)
  THEN Thrown("TypeError", "Array support for booleans will not be supported")
  ELSE IF (HasOwn(o, "primary") /\ o.primary) /\ (HasOwn(o, "nullable") /\ o.nullable)
  THEN Thrown("Error", "Primary key cannot be nullable")
  ELSE IF isArray(o) /\ (HasOwn(o, "primary") /\ o.primary)
  THEN Thrown("Error", "Primary key cannot be an Array")
  ELSE renderColumn(n, t, o)

convertJSTypeToSql(n, t, o) ==
  IF t \in {"function", "class", "symbol", "undefined", "null"}
  THEN Thrown("Error", "Type \"" \o t \o "\" is not supported")
  ELSE IF t \in {"boolean"} /\ isArray(o)
  THEN Thrown("TypeError", "Array support for booleans will not be supported")
  ELSE IF isArray(o) /\ (HasOwn(o, "primary") /\ o.primary)
  THEN Thrown("Error", "Primary key cannot be an Array")
  ELSE IF (HasOwn(o, "primary") /\ o.primary) /\ (HasOwn(o, "nullable") /\ o.nullable)
  THEN Thrown("Error", "Primary key cannot be nullable")
  ELSE renderColumn(n, t, o)

(***************************************************************************)
(* util: isObject, escape                                                  *)
(*                                                                         *)
(* A value is [t |-> its kind, ...]: string (s), number (n), boolean (b),  *)
(* bigint (i), array (items), object (props, a sequence of <<key, value>>  *)
(* in property order), date (ms since the epoch), null, undefined.         *)
(***************************************************************************)
Str(s) == [t |-> "string", s |-> s]

typeof(v) ==
  CASE v.t \in {"object", "array", "date", "null"} -> "object"
    [] OTHER -> v.t

ArrayIsArray(v) == v.t = "array"

instanceofDate(v) == v.t = "date"

isObject(v) == typeof(v) = "object" /\ ~ArrayIsArray(v)

Pad(n, width) ==
  LET s == NatToString(n)
  IN IF width = 3 /\ n < 10 THEN "00" \o s
     ELSE IF n < 10 \/ (width = 3 /\ n < 100) THEN "0" \o s
     ELSE s

DayNames == <<"Sun", "Mon", "Tue", "Wed", "Thu", "Fri", "Sat">>

\* hh:mm:ss of a time within January 1970
ClockText(ms) ==
  LET secs == (ms \div 1000) % 86400
  IN Pad(secs \div 3600, 2) \o ":" \o Pad((secs \div 60) % 60, 2) \o ":" \o Pad(secs % 60, 2)

\* Date.prototype.toUTCString, for a time within January 1970
toUTCString(v) ==
  LET day == v.ms \div 86400000
  IN DayNames[((4 + day) % 7) + 1] \o ", " \o Pad(day + 1, 2) \o " Jan 1970 "
       \o ClockText(v.ms) \o " GMT"

\* Date.prototype.toISOString, for a time within January 1970
toISOString(v) ==
  LET day == v.ms \div 86400000
  IN "1970-01-" \o Pad(day + 1, 2) \o "T" \o ClockText(v.ms) \o "."
       \o Pad(v.ms % 1000, 3) \o "Z"

RECURSIVE JSONStringify(_)
JSONStringify(v) ==
  CASE v.t = "string" -> "\"" \o v.s \o "\""
    [] v.t = "number" -> IF v.n.nan THEN "null" ELSE NumberToString(v.n)
    [] v.t = "boolean" -> IF v.b THEN "true" ELSE "false"
    [] v.t = "null" -> "null"
    [] v.t = "date" -> "\"" \o toISOString(v) \o "\""
    [] v.t = "array" ->
         "[" \o Join([i \in 1..Len(v.items) |-> JSONStringify(v.items[i])], ",") \o "]"
    [] v.t = "object" ->
         "{" \o Join([i \in 1..Len(v.props) |->
                        "\"" \o v.props[i][1] \o "\":" \o JSONStringify(v.props[i][2])], ",")
             \o "}"

escape(v) ==
  IF typeof(v) = "string" THEN Str("'" \o v.s \o "'")
  ELSE IF isObject(v) THEN Str("'" \o JSONStringify(v) \o "'")
  ELSE IF instanceofDate(v) THEN Str("'" \o toUTCString(v) \o "'")
  ELSE v

(***************************************************************************)
(* pipelines/table/CreateTable                                             *)
(*                                                                         *)
(* A schema is the sequence of <<key, value>> that Object.keys(schema)     *)
(* walks.  A value is a bare tag [kind |-> "string", tag] or a descriptor  *)
(* [kind |-> "object", fields], fields being its own properties.           *)
(***************************************************************************)
SUPPORTED == <<"float", "number", "boolean", "string", "object", "date">>

\* the SQLOptions built from a descriptor
descriptorOptions(val) ==
  (IF HasOwn(val, "primary") /\ val.primary THEN "primary" :> TRUE ELSE NoProps)
    @@ (IF HasOwn(val, "nullable") /\ val.nullable THEN "nullable" :> TRUE ELSE NoProps)
    @@ (IF HasOwn(val, "array") THEN "array" :> val.array ELSE NoProps)
    @@ (IF HasOwn(val, "size") THEN "size" :> val.size ELSE NoProps)

\* the size checks of a descriptor that has a size; Pending when they pass
checkSize(val) ==
  IF ~Includes(<<"array", "string">>, val.type)
  THEN Thrown("Error", "SQL type \"" \o val.type
                 \o "\" cannot have an allocated size, only strings are supported")
  ELSE IF isNaN(val.size) \/ ~NumberIsInteger(val.size)
  THEN Thrown("Error", "Allocated size cannot be NaN or a float integer")
  ELSE Pending

\* one turn of the loop over the keys: the fragment pushed, or the error thrown
columnEntry(key, value) ==
  IF value.kind = "object"
  THEN LET val == value.fields
       IN IF ~HasOwn(val, "type") THEN Thrown("Error", "Missing \"type\"")
          ELSE IF ~Includes(SUPPORTED, val.type)
          THEN Thrown("Error", "SQL type \"" \o val.type \o "\" is not a valid type ("
                         \o Join(SUPPORTED, ", ") \o ")")
          ELSE IF HasOwn(val, "size") /\ checkSize(val) # Pending
          THEN checkSize(val)
          ELSE convertJSTypeToSql(key, val.type, descriptorOptions(val))
  ELSE IF ~Includes(SUPPORTED, value.tag)
       THEN Thrown("Error", "Invalid type \"" \o value.tag \o "\" ("
                      \o Join(SUPPORTED, ", ") \o ")")
       ELSE convertJSTypeToSql(key, value.tag, [nullable |-> FALSE])

\* variant: an invalid entry ends the loop instead of the call
RECURSIVE collectValuesUntilError(_, _, _)
collectValuesUntilError(schema, i, values) ==
  IF i > Len(schema) THEN Returned(values)
  ELSE LET r == columnEntry(schema[i][1], schema[i][2])
       IN IF r.kind = "throw" THEN Returned(values)
          ELSE collectValuesUntilError(schema, i + 1, Append(values, r.value))

\* the loop from key i on, `values` holding the fragments pushed so far
RECURSIVE collectValues(_, _, _)
collectValues(schema, i, values) ==
  IF i > Len(schema) THEN Returned(values)
  ELSE LET r == columnEntry(schema[i][1], schema[i][2])
       IN IF r.kind = "throw" THEN r
          ELSE collectValues(schema, i + 1, Append(values, r.value))

\* variant: the separating space belongs to the IF NOT EXISTS segment
statementTight(exists, table, values) ==
  "CREATE TABLE" \o (IF exists THEN " IF NOT EXISTS" ELSE "") \o " " \o table
    \o (IF Len(values) > 0 THEN " (" \o Join(values, ", ") \o ")" ELSE "") \o ";"

statement(exists, table, values) ==
  "CREATE TABLE " \o (IF exists THEN "IF NOT EXISTS" ELSE "") \o " " \o table
    \o (IF Len(values) > 0 THEN " (" \o Join(values, ", ") \o ")" ELSE "") \o ";"

getSql(table, options) ==
  LET exists == IF HasOwn(options, "exists") THEN options.exists ELSE TRUE
      values == IF HasOwn(options, "schema")
                THEN collectValues(options.schema, 1, <<>>)
                ELSE Returned(<<>>)
  IN IF values.kind = "throw" THEN values
     ELSE Returned(statement(exists, table, values.value))

(***************************************************************************)
(* The inputs tried.                                                       *)
(***************************************************************************)
\* NaN, the whole numbers -1..MaxSize, and the fractions 0.5, 1.5, ...
SizeValues ==
  {NaN} \cup {Int2Num(n) : n \in -1..MaxSize}
        \cup {Num(2 * n + 1) : n \in 0..(MaxSize - 1)}

\* every tag convertJSTypeToSql declares for its `type` parameter
TypeTags ==
  {"string", "number", "bigint", "boolean", "symbol", "undefined", "object",
   "function", "float", "array", "null", "class", "date"}

\* the tags CreateTable declares for a schema entry (SupportedTypes)
SchemaTags == {"string", "float", "number", "boolean", "bigint", "object", "date"}

Names == {<<"i", "d">>, <<"n", "a", "m", "e">>, <<"C", "o", "l">>}

Flag(f) == {NoProps} \cup {f :> b : b \in BOOLEAN}

SizeProp == {NoProps} \cup {"size" :> s : s \in SizeValues}

\* every SQLOptions record: each of the four properties absent or set
SQLOptionsRecords ==
  {p @@ n @@ a @@ s :
     p \in Flag("primary"), n \in Flag("nullable"), a \in Flag("array"), s \in SizeProp}

BareTag(t) == [kind |-> "string", tag |-> t]

Descriptor(d) == [kind |-> "object", fields |-> d]

TypeProp == {NoProps} \cup {"type" :> t : t \in SchemaTags \cup {"symbol", "array"}}

\* every schema entry: a bare tag, or a descriptor with any of its properties
AllEntries ==
  {BareTag(t) : t \in TypeTags}
    \cup {Descriptor(t @@ o) : t \in TypeProp, o \in SQLOptionsRecords}

\* entries for the schemas of several columns: valid ones, and one for each error
SampleEntries ==
  {BareTag("string"), BareTag("number"), BareTag("bigint"), BareTag("symbol"),
   Descriptor([type |-> "number", primary |-> TRUE]),
   Descriptor([type |-> "string", size |-> Int2Num(2)]),
   Descriptor([type |-> "string", size |-> Num(5)]),
   Descriptor([type |-> "float", size |-> Int2Num(2)]),
   Descriptor([type |-> "number", primary |-> TRUE, array |-> TRUE]),
   Descriptor([type |-> "boolean", array |-> TRUE]),
   Descriptor([type |-> "object", nullable |-> TRUE, array |-> TRUE]),
   Descriptor([nullable |-> TRUE])}

\* the key sequences of the schemas of several columns: distinct keys
KeyLists ==
  {ks \in UNION {[1..n -> Names] : n \in 2..MaxCols} :
     \A i, j \in 1..Len(ks) : i # j => ks[i] # ks[j]}

Schemas ==
  {<<>>}
    \cup {<<<<k, e>>>> : k \in {<<"i", "d">>, <<"C", "o", "l">>}, e \in AllEntries}
    \cup UNION {{[i \in 1..Len(ks) |-> <<ks[i], es[i]>>] :
                   es \in [1..Len(ks) -> SampleEntries]} : ks \in KeyLists}

ExistsProp == {NoProps} \cup {"exists" :> b : b \in BOOLEAN}

CreateTableOptions ==
  ExistsProp \cup {e @@ ("schema" :> sc) : e \in ExistsProp, sc \in Schemas}

EscapeChars == {"a", "B", "'"}

EscapeStrings ==
  {Text(cs) : cs \in UNION {[1..n -> EscapeChars] : n \in 0..MaxStrLen}}

PropValues ==
  {[t |-> "number", n |-> Int2Num(1)], Str("x"), [t |-> "boolean", b |-> TRUE],
   [t |-> "null"]}

\* a time of each kind within January 1970
DateTimes == {0, 1, 999, 1000, 61000, 3600000, 86399999, 86400000, 950400123}

EscapeValues ==
  {Str(s) : s \in EscapeStrings}
    \cup {[t |-> "number", n |-> x] : x \in SizeValues}
    \cup {[t |-> "boolean", b |-> x] : x \in BOOLEAN}
    \cup {[t |-> "bigint", i |-> x] : x \in -1..MaxSize}
    \cup {[t |-> "array", items |-> xs] :
            xs \in UNION {[1..n -> PropValues] : n \in 0..1}}
    \cup {[t |-> "null"], [t |-> "undefined"]}
    \cup {[t |-> "object", props |-> <<>>]}
    \cup {[t |-> "object", props |-> <<<<"a", x>>>>] : x \in PropValues}
    \cup {[t |-> "object", props |-> <<<<"a", x>>, <<"b", y>>>>] :
            x \in PropValues, y \in PropValues}
    \cup {[t |-> "date", ms |-> m] : m \in DateTimes}

Calls ==
  {[fn |-> "getSql", table |-> tb, options |-> o] :
     tb \in {"users", "t"}, o \in CreateTableOptions}
    \cup {[fn |-> "convertJSTypeToSql", name |-> n, type |-> t, options |-> o] :
            n \in Names, t \in TypeTags, o \in SQLOptionsRecords}
    \cup {[fn |-> "escape", type |-> v] : v \in EscapeValues}

(***************************************************************************)
(* The state machine: a call is made with some arguments, then it runs.    *)
(***************************************************************************)
Init == call \in Calls /\ result = Pending

GetSql ==
  /\ call.fn = "getSql" /\ result = Pending
  /\ result' = getSql(call.table, call.options)
  /\ UNCHANGED call

ConvertJSTypeToSql ==
  /\ call.fn = "convertJSTypeToSql" /\ result = Pending
  /\ result' = convertJSTypeToSql(call.name, call.type, call.options)
  /\ UNCHANGED call

Escape ==
  /\ call.fn = "escape" /\ result = Pending
  /\ result' = Returned(escape(call.type))
  /\ UNCHANGED call

Next == GetSql \/ ConvertJSTypeToSql \/ Escape

Spec == Init /\ [][Next]_vars

(***************************************************************************)
(* What the claims speak of.                                               *)
(***************************************************************************)
Ran(fn) == call.fn = fn /\ result # Pending

Truthy(o, f) == HasOwn(o, f) /\ o[f]

\* the lowercase spelling of each column name tried
LowerName(n) ==
  CASE n = <<"i", "d">> -> "id"
    [] n = <<"n", "a", "m", "e">> -> "name"
    [] n = <<"C", "o", "l">> -> "col"

BaseOf(t) ==
  CASE t = "boolean" -> "BOOL"
    [] t \in {"date", "string"} -> "VARCHAR"
    [] t = "object" -> "JSONB"
    [] t = "bigint" -> "BIGINT"
    [] t = "number" -> "INTEGER"
    [] t = "float" -> "DOUBLE"

Forbidden(t, o) ==
  \/ t = "boolean" /\ Truthy(o, "array")
  \/ Truthy(o, "primary") /\ Truthy(o, "array")
  \/ Truthy(o, "primary") /\ Truthy(o, "nullable")

\* a getSql call on a schema of exactly one column
OneColumn ==
  /\ call.fn = "getSql" /\ HasOwn(call.options, "schema")
  /\ Len(call.options.schema) = 1

TheKey == call.options.schema[1][1]

TheEntry == call.options.schema[1][2]

ExistsOf(o) == IF HasOwn(o, "exists") THEN o.exists ELSE TRUE

\* the statement getSql returns for one column with the given fragment
OneColumnStatement(fragment) ==
  "CREATE TABLE " \o (IF ExistsOf(call.options) THEN "IF NOT EXISTS" ELSE "")
    \o " " \o call.table \o " (" \o fragment \o ");"

(***************************************************************************)
(* C1: for every name, every type among boolean, date, string, object,     *)
(* bigint, number, float and every options record free of a forbidden      *)
(* combination, convertJSTypeToSql returns the lowercased name, a space,   *)
(* the base keyword of the type, then the size, array, nullable and        *)
(* primary suffixes in that order: "(N)" only for date, string and object, *)
(* "[N]" or "[]" when the array flag is set, " NULL" and " PRIMARY KEY"    *)
(* when their flags are set; with no flag and no size it is name and base. *)
(***************************************************************************)
C1_FragmentShape ==
  (Ran("convertJSTypeToSql") /\ call.type \in SchemaTags
     /\ ~Forbidden(call.type, call.options)) =>
    LET o == call.options
        n == IF HasOwn(o, "size") THEN {NumberToString(o.size)} ELSE {}
        sizes == {""} \cup (IF call.type \in {"date", "string", "object"}
                            THEN {"(" \o x \o ")" : x \in n} ELSE {})
        arrays == IF Truthy(o, "array")
                  THEN {"[]"} \cup {"[" \o x \o "]" : x \in n} ELSE {""}
        tail == (IF Truthy(o, "nullable") THEN " NULL" ELSE "")
                  \o (IF Truthy(o, "primary") THEN " PRIMARY KEY" ELSE "")
        head == LowerName(call.name) \o " " \o BaseOf(call.type)
    IN /\ result.kind = "return"
       /\ \E sz \in sizes, ar \in arrays : result.value = head \o sz \o ar \o tail
       /\ (~Truthy(o, "array") /\ ~Truthy(o, "nullable") /\ ~Truthy(o, "primary")
             /\ ~HasOwn(o, "size")) => result.value = head

\* a sized, nullable string array named Col
C1_Witness ==
  /\ Ran("convertJSTypeToSql") /\ call.name = <<"C", "o", "l">>
  /\ call.type = "string"
  /\ call.options = [size |-> Int2Num(3), array |-> TRUE, nullable |-> TRUE]
  /\ result = Returned("col VARCHAR(3)[3] NULL")

(***************************************************************************)
(* C2: for every table name and every schema whose entries are all valid,  *)
(* getSql returns "CREATE TABLE", the middle, the table name, the columns  *)
(* and ";", the columns being " (" + the fragments joined by ", " + ")"    *)
(* for a schema with a column and empty otherwise.                         *)
(***************************************************************************)
C2_Shape(middleExists, middlePlain) ==
  (Ran("getSql")
     /\ (HasOwn(call.options, "schema") =>
           \A i \in 1..Len(call.options.schema) :
             columnEntry(call.options.schema[i][1],
                         call.options.schema[i][2]).kind = "return")) =>
    LET sc == IF HasOwn(call.options, "schema") THEN call.options.schema ELSE <<>>
        fragments == [i \in 1..Len(sc) |-> columnEntry(sc[i][1], sc[i][2]).value]
        columns == IF Len(sc) > 0 THEN " (" \o Join(fragments, ", ") \o ")" ELSE ""
        middle == IF ExistsOf(call.options) THEN middleExists ELSE middlePlain
    IN result = Returned("CREATE TABLE" \o middle \o call.table \o columns \o ";")

\* C2 as stated: the middle is " IF NOT EXISTS" and two spaces when exists is
\* true or absent, and one space when exists is false
C2_Original == C2_Shape(" IF NOT EXISTS  ", " ")

\* C2 as amended: the middle is " IF NOT EXISTS " (one space on each side) when
\* exists is true or absent, and two spaces when exists is false
C2_Statement == C2_Shape(" IF NOT EXISTS ", "  ")

\* the users example
C2_Witness ==
  /\ Ran("getSql") /\ call.table = "users"
  /\ call.options =
       [schema |-> <<<<<<"i", "d">>, Descriptor([type |-> "number", primary |-> TRUE])>>,
                     <<<<"n", "a", "m", "e">>, BareTag("string")>>>>]
  /\ result = Returned(
       "CREATE TABLE IF NOT EXISTS users (id INTEGER PRIMARY KEY, name VARCHAR);")

(***************************************************************************)
(* C3: a one-column schema whose entry is a bare tag, or a descriptor with *)
(* only a type, yields a statement holding that column's fragment when the *)
(* tag is one of string, float, number, boolean, bigint, object, date, and *)
(* an error for every other tag.                                           *)
(***************************************************************************)
C3_SupportedSet ==
  (OneColumn /\ result # Pending
     /\ (TheEntry.kind = "object" => DOMAIN TheEntry.fields = {"type"})) =>
    LET t == IF TheEntry.kind = "object" THEN TheEntry.fields.type ELSE TheEntry.tag
    IN IF t \in SchemaTags
       THEN result = Returned(OneColumnStatement(LowerName(TheKey) \o " " \o BaseOf(t)))
       ELSE result.kind = "throw"

(***************************************************************************)
(* C4: for a descriptor of a type getSql accepts that carries a whole      *)
(* size, the size-not-allowed error is raised exactly when the type is not *)
(* string and the array flag is not set.                                   *)
(***************************************************************************)
SizeNotAllowed(t) ==
  Thrown("Error", "SQL type \"" \o t
            \o "\" cannot have an allocated size, only strings are supported")

\* C4: with a whole size on a descriptor of an accepted type, the
\* size-not-allowed error is raised exactly when the type is not string and the
\* array flag is not set
C4_SizeAccepted ==
  (OneColumn /\ result # Pending /\ TheEntry.kind = "object"
     /\ HasOwn(TheEntry.fields, "type") /\ Includes(SUPPORTED, TheEntry.fields.type)
     /\ HasOwn(TheEntry.fields, "size") /\ NumberIsInteger(TheEntry.fields.size)) =>
    (result = SizeNotAllowed(TheEntry.fields.type)
       <=> (TheEntry.fields.type # "string" /\ ~Truthy(TheEntry.fields, "array")))

(***************************************************************************)
(* C5: a string column's whole size N takes effect, the fragment holding   *)
(* "(N)", from a least N on; a size below it, or no size, renders the      *)
(* column unsized.  Stated of a one-column getSql and of a direct          *)
(* convertJSTypeToSql call, for entries free of a forbidden combination.   *)
(***************************************************************************)
StringFragment(n, o, least) ==
  LET shown == HasOwn(o, "size") /\ o.size.halves >= 2 * least
      digits == IF shown THEN NumberToString(o.size) ELSE ""
  IN LowerName(n) \o " VARCHAR" \o (IF shown THEN "(" \o digits \o ")" ELSE "")
       \o (IF Truthy(o, "array") THEN "[" \o digits \o "]" ELSE "")
       \o (IF Truthy(o, "nullable") THEN " NULL" ELSE "")
       \o (IF Truthy(o, "primary") THEN " PRIMARY KEY" ELSE "")

WholeOrNoSize(o) == HasOwn(o, "size") => NumberIsInteger(o.size)

C5_Shape(least) ==
  /\ (OneColumn /\ result # Pending /\ TheEntry.kind = "object"
        /\ HasOwn(TheEntry.fields, "type") /\ TheEntry.fields.type = "string"
        /\ WholeOrNoSize(TheEntry.fields) /\ ~Forbidden("string", TheEntry.fields)) =>
       result = Returned(OneColumnStatement(StringFragment(TheKey, TheEntry.fields, least)))
  /\ (Ran("convertJSTypeToSql") /\ call.type = "string"
        /\ WholeOrNoSize(call.options) /\ ~Forbidden("string", call.options)) =>
       result = Returned(StringFragment(call.name, call.options, least))

\* C5 as stated: every whole size N >= 1 takes effect
C5_Original == C5_Shape(1)

\* C5 as amended: every whole size N >= 2 takes effect; a size of 1, like an
\* absent, zero or negative one, renders the column unsized
C5_SizeTakesEffect == C5_Shape(2)

\* a string column of size 1, rendered unsized
C5_Witness ==
  /\ OneColumn /\ call.table = "t" /\ TheKey = <<"C", "o", "l">>
  /\ call.options.schema[1][2] = Descriptor([type |-> "string", size |-> Int2Num(1)])
  /\ ~HasOwn(call.options, "exists")
  /\ result = Returned("CREATE TABLE IF NOT EXISTS t (col VARCHAR);")

(***************************************************************************)
(* C6: convertJSTypeToSql, and so getSql for a descriptor that passes its  *)
(* own checks, raises an error for every forbidden combination, and the    *)
(* error is that of the first rule broken in the order unsupported type,   *)
(* boolean with array, primary with array, primary with nullable.          *)
(***************************************************************************)
FirstError(t, o) ==
  IF t \in {"function", "class", "symbol", "undefined", "null"}
  THEN Thrown("Error", "Type \"" \o t \o "\" is not supported")
  ELSE IF t = "boolean" /\ Truthy(o, "array")
  THEN Thrown("TypeError", "Array support for booleans will not be supported")
  ELSE IF Truthy(o, "primary") /\ Truthy(o, "array")
  THEN Thrown("Error", "Primary key cannot be an Array")
  ELSE Thrown("Error", "Primary key cannot be nullable")

\* C6: every forbidden combination raises the error of the first rule broken,
\* in convertJSTypeToSql and in getSql for a descriptor that passes its checks
C6_ForbiddenOrder ==
  /\ (Ran("convertJSTypeToSql")
        /\ (Forbidden(call.type, call.options)
              \/ call.type \in {"function", "class", "symbol", "undefined", "null"})) =>
       result = FirstError(call.type, call.options)
  /\ (OneColumn /\ result # Pending /\ TheEntry.kind = "object"
        /\ HasOwn(TheEntry.fields, "type") /\ Includes(SUPPORTED, TheEntry.fields.type)
        /\ (HasOwn(TheEntry.fields, "size") =>
              TheEntry.fields.type = "string" /\ NumberIsInteger(TheEntry.fields.size))
        /\ Forbidden(TheEntry.fields.type, TheEntry.fields)) =>
       result = FirstError(TheEntry.fields.type, TheEntry.fields)

\* a nullable primary-key array of numbers
C6_Witness ==
  /\ Ran("convertJSTypeToSql") /\ call.type = "number"
  /\ call.options = [primary |-> TRUE, array |-> TRUE, nullable |-> TRUE]
  /\ result = Thrown("Error", "Primary key cannot be an Array")

(***************************************************************************)
(* C7: getSql walks the schema in key order.  If an entry is invalid the   *)
(* call raises the error of the first invalid entry and returns no         *)
(* statement; otherwise the statement holds one fragment per key, in key   *)
(* order.                                                                  *)
(***************************************************************************)
EntryOutcome(sc, i) == columnEntry(sc[i][1], sc[i][2])

InvalidEntries(sc) == {i \in 1..Len(sc) : EntryOutcome(sc, i).kind = "throw"}

\* C7: the error of the first invalid entry in key order and no statement, or
\* else the statement with one fragment per key in key order
C7_FirstInvalidEntry ==
  (Ran("getSql") /\ HasOwn(call.options, "schema")) =>
    LET sc == call.options.schema
        bad == InvalidEntries(sc)
    IN IF bad # {}
       THEN result = EntryOutcome(sc, CHOOSE i \in bad : \A j \in bad : i <= j)
       ELSE /\ result.kind = "return"
            /\ result.value =
                 "CREATE TABLE " \o (IF ExistsOf(call.options) THEN "IF NOT EXISTS" ELSE "")
                   \o " " \o call.table
                   \o (IF Len(sc) > 0
                       THEN " (" \o Join([i \in 1..Len(sc) |-> EntryOutcome(sc, i).value],
                                         ", ") \o ")"
                       ELSE "")
                   \o ";"

\* a valid entry followed by an invalid one: an error, no statement
C7_Witness ==
  /\ Ran("getSql") /\ HasOwn(call.options, "schema")
  /\ Len(call.options.schema) >= 2
  /\ EntryOutcome(call.options.schema, 1).kind = "return"
  /\ EntryOutcome(call.options.schema, 2).kind = "throw"
  /\ result = EntryOutcome(call.options.schema, 2)

(***************************************************************************)
(* C8: when getSql raises the invalid-size error for a descriptor of type   *)
(* string that carries a size.                                             *)
(***************************************************************************)
InvalidSize == Thrown("Error", "Allocated size cannot be NaN or a float integer")

StringWithSize ==
  /\ OneColumn /\ result # Pending /\ TheEntry.kind = "object"
  /\ HasOwn(TheEntry.fields, "type") /\ TheEntry.fields.type = "string"
  /\ HasOwn(TheEntry.fields, "size")

\* C8 as stated: the error is raised whenever the size is not a positive whole
\* number: fractional, NaN, zero or negative
C8_Original ==
  (StringWithSize
     /\ ~(NumberIsInteger(TheEntry.fields.size) /\ TheEntry.fields.size.halves >= 2)) =>
    result = InvalidSize

\* C8 as amended: the error is raised exactly when the size is fractional or
\* NaN; a zero or negative whole size is accepted, and the column is rendered
\* unsized when no other rule is broken
C8_InvalidSize ==
  StringWithSize =>
    /\ result = InvalidSize
         <=> (TheEntry.fields.size.nan \/ TheEntry.fields.size.halves % 2 # 0)
    /\ (~TheEntry.fields.size.nan /\ TheEntry.fields.size.halves % 2 = 0
          /\ TheEntry.fields.size.halves <= 0
          /\ ~Forbidden("string", TheEntry.fields)) =>
         result = Returned(OneColumnStatement(StringFragment(TheKey, TheEntry.fields, 2)))

\* a string column of size 2.5
C8_Witness ==
  /\ StringWithSize /\ TheEntry.fields = [type |-> "string", size |-> Num(5)]
  /\ result = InvalidSize

(***************************************************************************)
(* C9: for every Date d, escape(d) is d's UTC string in single quotes.     *)
(***************************************************************************)
C9_DateUTC ==
  (Ran("escape") /\ call.type.t = "date") =>
    result = Returned(Str("'" \o toUTCString(call.type) \o "'"))

(***************************************************************************)
(* C10: escape returns a string in single quotes with its characters       *)
(* unchanged, a plain object as its JSON text in single quotes, and a      *)
(* number, boolean, bigint, array, null or undefined as the value itself.  *)
(***************************************************************************)
C10_EscapePartition ==
  Ran("escape") =>
    LET v == call.type
    IN CASE v.t = "string" -> result = Returned(Str("'" \o v.s \o "'"))
         [] v.t = "object" -> result = Returned(Str("'" \o JSONStringify(v) \o "'"))
         [] v.t \in {"number", "boolean", "bigint", "array", "null", "undefined"} ->
              result = Returned(v)
         [] OTHER -> TRUE

====
